---- MODULE Spec2Model ----
(***************************************************************************)
(* Model of the RabbitMQ broker ingress (cmd/ingress/main.go): the        *)
(* connection supervisor (startup connect, retry loop, shutdown), the     *)
(* publish pipeline (send) and the HTTP ingress handler (ServeHTTP).      *)
(***************************************************************************)
EXTENDS Integers, FiniteSets, Sequences, TLC

(* ---------------- bounds ---------------- *)
MaxAttempts == 2
NumHandlers == 2
MaxElapsed == 1

(* ---------------- program constants ---------------- *)
noDuration == -1
StatusAccepted == 202
StatusBadRequest == 400
StatusNotFound == 404
StatusMethodNotAllowed == 405
StatusInternalServerError == 500

Attempts == 1..MaxAttempts
Handlers == 1..NumHandlers
Methods == {"POST", "GET"}
URIs == {"/", "/other"}
Bodies == {"ok", "undecodable", "invalid", "unmarshalable"}
Requests == [method : Methods, uri : URIs, body : Bodies]
WellFormed == [method |-> "POST", uri |-> "/", body |-> "ok"]

\* The requests sent to worker h: every kind to the first, well-formed ones to the others.
RequestsOf(h) == IF h = 1 THEN Requests ELSE {WellFormed}
BrokerModes == {"healthy", "down", "nochannel", "noconfirm"}

\* What a connect attempt can meet while the broker is up, or not.
Answers(up) == IF up THEN {"healthy"} ELSE BrokerModes \ {"healthy"}

VARIABLES
  brokerUp,     \* the broker is healthy: a connect attempt succeeds
  connSt,       \* connSt[a]: state of the connection opened by connect attempt a
  chanSt,       \* chanSt[a]: state of the channel opened by connect attempt a
  attempts,     \* number of calls of CreateRabbitMQConnections so far
  env,          \* env.connection, env.channel (0 = nil) and the attempt that produced them
  retryClosed,  \* retryChannel has been closed
  signallers,   \* goroutines blocked in SignalRetry(retryChannel, true)
  loopPc,       \* position of the retry-loop goroutine
  loopRes,      \* result of the retry loop's connect call, not yet assigned
  mainPc,       \* position of main
  mainRes,      \* result of main's connect call, not yet assigned
  deferArgs,    \* arguments of the deferred CleanupRabbitMQ call
  shutdownCalls,\* number of invocations of CleanupRabbitMQ
  shutdownEnv,  \* the pair the shared state held when shutdown was invoked
  crashed,      \* an unrecovered panic has ended the process
  recovered,    \* the retry loop installed a usable pair and the broker has been healthy since
  hs,           \* hs[h]: the request-handling worker h
  msg           \* the event at hand and the headers send has built for it

vars == <<brokerUp, connSt, chanSt, attempts, env, retryClosed,
          signallers, loopPc, loopRes, mainPc, mainRes, deferArgs,
          shutdownCalls, shutdownEnv, crashed, recovered, hs, msg>>

supVars == <<connSt, chanSt, attempts, env, retryClosed, signallers, loopPc,
             loopRes, mainPc, mainRes, deferArgs, shutdownCalls, shutdownEnv>>

(* ---------------- events and message headers ---------------- *)
ReservedKeys == {"type", "source", "subject", "traceparent", "tracestate"}
ExtKeys == {"type", "tracestate", "ext1"}
ExtVals == {"x", "demo"}
Types == {"demo", "other"}
Subjects == {"", "s1"}

\* The extensions of an event: a map from some keys to values.
Extensions == UNION {[S -> ExtVals] : S \in SUBSET ExtKeys}

\* An event with the trace context of its span.
Events == [type : Types, source : {"test"}, subject : Subjects,
           tp : {"tp"}, ts : {"ts"}, ext : Extensions]

NoMsg == [event |-> [type |-> "demo", source |-> "test", subject |-> "", tp |-> "tp",
                     ts |-> "ts", ext |-> <<>>],
          headers |-> <<>>, built |-> FALSE]

\* main.go:195-201: the table literal.
ReservedHeaders(e) ==
  [k \in ReservedKeys |->
     CASE k = "type" -> e.type
       [] k = "source" -> e.source
       [] k = "subject" -> e.subject
       [] k = "traceparent" -> e.tp
       [] OTHER -> e.ts]

\* Mutant: an extension does not replace a header that is already there.
Headers_ReservedWins(e) ==
  [k \in ReservedKeys \cup DOMAIN e.ext |->
     IF k \in ReservedKeys THEN ReservedHeaders(e)[k] ELSE e.ext[k]]

\* main.go:195-205: the literal, then headers[key] = val for every extension.
Headers(e) ==
  [k \in ReservedKeys \cup DOMAIN e.ext |->
     IF k \in DOMAIN e.ext THEN e.ext[k] ELSE ReservedHeaders(e)[k]]

NilPair == [conn |-> 0, chan |-> 0, attempt |-> 0]

IdleHandler == [pc |-> "idle", req |-> WellFormed,
                status |-> 0, dur |-> noDuration, err |-> FALSE,
                pub |-> "none", conf |-> "none", ch |-> 0, tries |-> 0,
                disp |-> FALSE, count |-> 0, countStatus |-> 0, written |-> 0]

Init ==
  /\ brokerUp \in BOOLEAN
  /\ connSt = [a \in Attempts |-> "none"]
  /\ chanSt = [a \in Attempts |-> "none"]
  /\ attempts = 0
  /\ env = NilPair
  /\ retryClosed = FALSE
  /\ signallers = 0
  /\ loopPc = "recv"
  /\ loopRes = NilPair
  /\ mainPc = "connect"
  /\ mainRes = NilPair
  /\ deferArgs = NilPair
  /\ shutdownCalls = 0
  /\ shutdownEnv = NilPair
  /\ crashed = FALSE
  /\ recovered = FALSE
  /\ hs = [h \in Handlers |-> IdleHandler]
  /\ msg = NoMsg

(* ---------------- rabbit helper ---------------- *)

\* SetupRabbitMQ: dial the broker and open one channel on the connection.
SetupRabbitMQ(mode, a) ==
  CASE mode = "down"      -> [conn |-> 0, chan |-> 0, err |-> TRUE]
    [] mode = "nochannel" -> [conn |-> a, chan |-> 0, err |-> TRUE]
    [] OTHER              -> [conn |-> a, chan |-> a, err |-> FALSE]

\* channel.Confirm(false): put the channel into confirm mode.
Confirm(mode) == mode = "noconfirm"

\* CloseRabbitMQConnections: close whatever of the pair is not nil.
CloseRabbitMQConnections(st, id) ==
  [a \in Attempts |-> IF a = id /\ st[a] = "open" THEN "closed" ELSE st[a]]

\* State of the resources of attempt a right after SetupRabbitMQ opened them.
Opened(st, id) == [a \in Attempts |-> IF a = id THEN "open" ELSE st[a]]

(* ---------------- CreateRabbitMQConnections ---------------- *)

\* The error of the connect attempt: SetupRabbitMQ's, else Confirm's.
ConnectErr(mode, a) ==
  IF ~SetupRabbitMQ(mode, a).err THEN Confirm(mode) ELSE TRUE

\* The returned pair: nil, nil on error.
ConnectResult(mode, a) ==
  IF ConnectErr(mode, a)
    THEN [conn |-> 0, chan |-> 0, attempt |-> a]
    ELSE [conn |-> SetupRabbitMQ(mode, a).conn, chan |-> SetupRabbitMQ(mode, a).chan,
          attempt |-> a]

\* Mutant: a failed attempt leaves what it opened open.
CreateRabbitMQConnections_NoClose(mode, a) ==
  LET s == SetupRabbitMQ(mode, a)
      e == ConnectErr(mode, a)
  IN /\ attempts' = a
     /\ connSt' = Opened(connSt, s.conn)
     /\ chanSt' = Opened(chanSt, s.chan)
     /\ signallers' = IF e THEN signallers + 1 ELSE signallers

\* Mutant: every attempt, failed or not, spawns a signaller.
CreateRabbitMQConnections_AlwaysSignals(mode, a) ==
  LET s == SetupRabbitMQ(mode, a)
      e == ConnectErr(mode, a)
      c1 == Opened(connSt, s.conn)
      h1 == Opened(chanSt, s.chan)
  IN /\ attempts' = a
     /\ connSt' = IF e THEN CloseRabbitMQConnections(c1, s.conn) ELSE c1
     /\ chanSt' = IF e THEN CloseRabbitMQConnections(h1, s.chan) ELSE h1
     /\ signallers' = signallers + 1

\* The whole call: open, confirm, on error close and spawn the signaller.
CreateRabbitMQConnections(mode, a) ==
  LET s == SetupRabbitMQ(mode, a)
      e == ConnectErr(mode, a)
      c1 == Opened(connSt, s.conn)
      h1 == Opened(chanSt, s.chan)
  IN /\ attempts' = a
     /\ connSt' = IF e THEN CloseRabbitMQConnections(c1, s.conn) ELSE c1
     /\ chanSt' = IF e THEN CloseRabbitMQConnections(h1, s.chan) ELSE h1
     /\ signallers' = IF e THEN signallers + 1 ELSE signallers

(* ---------------- main: startup ---------------- *)

\* main.go:113, the call.
MainConnect ==
  /\ ~crashed /\ mainPc = "connect"
  /\ attempts < MaxAttempts
  /\ \E mode \in Answers(brokerUp) :
       /\ CreateRabbitMQConnections(mode, attempts + 1)
       /\ mainRes' = ConnectResult(mode, attempts + 1)
  /\ mainPc' = "assign"
  /\ UNCHANGED <<brokerUp, env, retryClosed, loopPc, loopRes,
                 deferArgs, shutdownCalls, shutdownEnv, crashed, recovered, hs, msg>>

\* main.go:113, the assignment to env.connection, env.channel.
MainAssign ==
  /\ ~crashed /\ mainPc = "assign"
  /\ env' = mainRes
  /\ mainPc' = "defer"
  /\ UNCHANGED <<brokerUp, connSt, chanSt, attempts, retryClosed,
                 signallers, loopPc, loopRes, mainRes, deferArgs,
                 shutdownCalls, shutdownEnv, crashed, recovered, hs, msg>>

\* main.go:117: defer evaluates the arguments of CleanupRabbitMQ now.
DeferredArgs(e) == [conn |-> e.conn, chan |-> e.chan, attempt |-> e.attempt]

MainDefer ==
  /\ ~crashed /\ mainPc = "defer"
  /\ deferArgs' = DeferredArgs(env)
  /\ mainPc' = "serving"
  /\ UNCHANGED <<brokerUp, connSt, chanSt, attempts, env, retryClosed,
                 signallers, loopPc, loopRes, mainRes, shutdownCalls, shutdownEnv, crashed,
                 recovered, hs, msg>>

(* ---------------- retry loop (main.go:99-112) ---------------- *)

\* Mutant: any received value ends the loop.
RetryLoopOn_StopsAlways(retry) == "closing"

\* Mutant: the loop ignores the stop value.
RetryLoopOn_NeverStops(retry) == "connect"

\* main.go:101: false ends the loop, true goes on to reconnect.
RetryLoopOn(retry) == IF ~retry THEN "closing" ELSE "connect"

\* A signaller blocked in SignalRetry(retryChannel, true) hands over its value.
RetryLoopRecvTrue ==
  /\ ~crashed /\ loopPc = "recv" /\ ~retryClosed
  /\ signallers > 0
  /\ attempts < MaxAttempts
  /\ signallers' = signallers - 1
  /\ loopPc' = RetryLoopOn(TRUE)
  /\ UNCHANGED <<brokerUp, connSt, chanSt, attempts, env, retryClosed,
                 loopRes, mainPc, mainRes, deferArgs, shutdownCalls, shutdownEnv, crashed,
                 recovered, hs, msg>>

\* CleanupRabbitMQ's send of false is received: both sides go on.
RetryLoopRecvFalse ==
  /\ ~crashed /\ loopPc = "recv" /\ ~retryClosed
  /\ mainPc = "signal"
  /\ mainPc' = "exited"
  /\ loopPc' = RetryLoopOn(FALSE)
  /\ UNCHANGED <<brokerUp, connSt, chanSt, attempts, env, retryClosed,
                 signallers, loopRes, mainRes, deferArgs, shutdownCalls, shutdownEnv, crashed,
                 recovered, hs, msg>>

\* main.go:103-104: close(retryChannel); break.
RetryLoopClose ==
  /\ ~crashed /\ loopPc = "closing"
  /\ retryClosed' = TRUE
  /\ loopPc' = "done"
  /\ UNCHANGED <<brokerUp, connSt, chanSt, attempts, env, signallers,
                 loopRes, mainPc, mainRes, deferArgs, shutdownCalls, shutdownEnv, crashed,
                 recovered, hs, msg>>

\* main.go:107, the call.
RetryLoopConnect ==
  /\ ~crashed /\ loopPc = "connect"
  /\ attempts < MaxAttempts
  /\ \E mode \in Answers(brokerUp) :
       /\ CreateRabbitMQConnections(mode, attempts + 1)
       /\ loopRes' = ConnectResult(mode, attempts + 1)
  /\ loopPc' = "assign"
  /\ UNCHANGED <<brokerUp, env, retryClosed, mainPc, mainRes,
                 deferArgs, shutdownCalls, shutdownEnv, crashed, recovered, hs, msg>>

\* Mutant: the result of a failed reconnect is not assigned.
RetryLoopAssign_KeepsOld ==
  /\ ~crashed /\ loopPc = "assign"
  /\ env' = IF loopRes.chan = 0 THEN env ELSE loopRes
  /\ loopPc' = "recv"
  /\ UNCHANGED <<brokerUp, connSt, chanSt, attempts, retryClosed,
                 signallers, loopRes, mainPc, mainRes, deferArgs, shutdownCalls, shutdownEnv,
                 crashed, recovered, hs, msg>>

\* main.go:107, the assignment to env.connection, env.channel.
RetryLoopAssign ==
  /\ ~crashed /\ loopPc = "assign"
  /\ env' = loopRes
  /\ loopPc' = "recv"
  /\ recovered' = IF /\ loopRes.chan # 0
                     /\ chanSt[loopRes.chan] = "open"
                     /\ brokerUp
                     /\ shutdownCalls = 0
                  THEN TRUE ELSE recovered
  /\ UNCHANGED <<brokerUp, connSt, chanSt, attempts, retryClosed,
                 signallers, loopRes, mainPc, mainRes, deferArgs, shutdownCalls, shutdownEnv,
                 crashed, hs, msg>>

\* SignalRetry(retryChannel, true) sends on the closed channel: the process panics.
SignallerPanic ==
  /\ ~crashed /\ retryClosed /\ signallers > 0
  /\ crashed' = TRUE
  /\ UNCHANGED <<brokerUp, supVars, recovered, hs, msg>>

(* ---------------- shutdown ---------------- *)

\* StartListen returns and the deferred CleanupRabbitMQ call starts.
MainShutdown ==
  /\ ~crashed /\ mainPc = "serving"
  /\ mainPc' = "cleanup"
  /\ shutdownCalls' = shutdownCalls + 1
  /\ shutdownEnv' = env
  /\ recovered' = FALSE
  /\ UNCHANGED <<brokerUp, connSt, chanSt, attempts, env, retryClosed,
                 signallers, loopPc, loopRes, mainRes, deferArgs, crashed, hs, msg>>

\* CleanupRabbitMQ: close the channel and the connection it was given.
MainCleanupClose ==
  /\ ~crashed /\ mainPc = "cleanup"
  /\ chanSt' = CloseRabbitMQConnections(chanSt, deferArgs.chan)
  /\ connSt' = CloseRabbitMQConnections(connSt, deferArgs.conn)
  /\ mainPc' = "signal"
  /\ UNCHANGED <<brokerUp, attempts, env, retryClosed, signallers,
                 loopPc, loopRes, mainRes, deferArgs, shutdownCalls, shutdownEnv, crashed,
                 recovered, hs, msg>>

\* A second invocation of CleanupRabbitMQ after the first has returned.
MainShutdownAgain ==
  /\ ~crashed /\ mainPc = "exited" /\ shutdownCalls = 1
  /\ mainPc' = "cleanup"
  /\ shutdownCalls' = shutdownCalls + 1
  /\ shutdownEnv' = env
  /\ UNCHANGED <<brokerUp, connSt, chanSt, attempts, env, retryClosed,
                 signallers, loopPc, loopRes, mainRes, deferArgs, crashed,
                 recovered, hs, msg>>

\* CleanupRabbitMQ's send of false on the closed retryChannel panics.
MainSignalPanic ==
  /\ ~crashed /\ mainPc = "signal" /\ retryClosed
  /\ mainPc' = "panicked"
  /\ crashed' = TRUE
  /\ UNCHANGED <<brokerUp, connSt, chanSt, attempts, env, retryClosed,
                 signallers, loopPc, loopRes, mainRes, deferArgs, shutdownCalls, shutdownEnv,
                 recovered, hs, msg>>

(* ---------------- the broker ---------------- *)

\* The broker goes down or comes back.
BrokerChange ==
  /\ ~crashed
  /\ brokerUp' = ~brokerUp
  /\ recovered' = FALSE
  /\ UNCHANGED <<supVars, crashed, hs, msg>>

\* The connection of attempt a is lost; its watcher asks for a retry.
ConnectionLost(a) ==
  /\ ~crashed /\ connSt[a] = "open"
  /\ connSt' = [connSt EXCEPT ![a] = "closed"]
  /\ chanSt' = [chanSt EXCEPT ![a] = IF @ = "open" THEN "closed" ELSE @]
  /\ signallers' = signallers + 1
  /\ recovered' = FALSE
  /\ UNCHANGED <<brokerUp, attempts, env, retryClosed, loopPc, loopRes,
                 mainPc, mainRes, deferArgs, shutdownCalls, shutdownEnv, crashed, hs, msg>>

(* ---------------- ServeHTTP (main.go:132-186) ---------------- *)

\* Mutant: the path is checked before the method.
ValidateRequest_PathFirst(req) ==
  IF req.uri # "/" THEN StatusNotFound
  ELSE IF req.method # "POST" THEN StatusMethodNotAllowed
  ELSE IF req.body = "undecodable" THEN StatusBadRequest
  ELSE IF req.body = "invalid" THEN StatusBadRequest
  ELSE 0

\* main.go:135-165: the status of a rejected request, 0 for one that goes on to send.
ValidateRequest(req) ==
  IF req.method # "POST" THEN StatusMethodNotAllowed
  ELSE IF req.uri # "/" THEN StatusNotFound
  ELSE IF req.body = "undecodable" THEN StatusBadRequest
  ELSE IF req.body = "invalid" THEN StatusBadRequest
  ELSE 0

\* A request arrives at worker h while the receiver is listening.
HandlerReceive(h, req) ==
  /\ ~crashed /\ mainPc = "serving"
  /\ hs[h].pc \in {"idle", "done", "aborted"}
  /\ hs' = [hs EXCEPT ![h] =
              [IdleHandler EXCEPT !.req = req,
                                  !.status = ValidateRequest(req),
                                  !.written = ValidateRequest(req),
                                  !.pc = IF ValidateRequest(req) = 0 THEN "send" ELSE "done"]]
  /\ UNCHANGED <<brokerUp, supVars, crashed, recovered, msg>>

(* ---------------- send (main.go:188-229) ---------------- *)

\* main.go:189-192: json.Marshal fails.
SendMarshalError == [status |-> StatusBadRequest, dur |-> noDuration, err |-> TRUE]

\* Mutant: a failed publish call reports a dispatch time.
SendPublishError_Timed == [status |-> StatusInternalServerError, dur |-> 0, err |-> TRUE]

\* main.go:219-221: the publish call returned an error.
SendPublishError == [status |-> StatusInternalServerError, dur |-> noDuration, err |-> TRUE]

\* Mutant: the result of dc.Wait() is ignored.
SendConfirmed_AckIgnored(ack, elapsed) ==
  [status |-> StatusAccepted, dur |-> elapsed, err |-> FALSE]

\* main.go:223-228: the outcome once dc.Wait() has returned.
SendConfirmed(ack, elapsed) ==
  IF ~ack
    THEN [status |-> StatusInternalServerError, dur |-> noDuration, err |-> TRUE]
    ELSE [status |-> StatusAccepted, dur |-> elapsed, err |-> FALSE]

\* channel.PublishWithDeferredConfirm on the channel read from env.channel.
PublishWithDeferredConfirm(ch) ==
  IF ch = 0 THEN "panic"
  ELSE IF chanSt[ch] # "open" THEN "error"
  ELSE "accepted"

\* dc.Wait(): the broker's confirmation; a channel closed meanwhile counts as nack.
Wait(ch, brokerAck) == brokerAck /\ chanSt[ch] = "open"

\* Mutant: the dispatch time is reported whatever the duration.
Report_AlwaysDispatch(out) ==
  [disp |-> TRUE, count |-> 1, countStatus |-> out.status, written |-> out.status]

\* main.go:180-185: the metrics reported and the status written for outcome out.
Report(out) ==
  [disp |-> out.dur > noDuration, count |-> 1, countStatus |-> out.status,
   written |-> out.status]

\* The handler's record once send has returned out and ServeHTTP has answered.
Answered(r, out) ==
  [r EXCEPT !.pc = "done", !.ch = 0, !.status = out.status, !.dur = out.dur, !.err = out.err,
            !.disp = Report(out).disp, !.count = r.count + Report(out).count,
            !.countStatus = Report(out).countStatus, !.written = Report(out).written]

\* Mutant: a lock taken before the publish is held until the confirmation.
HandlerPublish_Serialised(h) ==
  /\ ~crashed /\ hs[h].pc = "send"
  /\ \A g \in Handlers \ {h} : hs[g].pc # "wait"
  /\ LET r == hs[h]
         p == PublishWithDeferredConfirm(env.chan)
         q == [r EXCEPT !.pub = p, !.ch = env.chan, !.tries = r.tries + 1]
     IN hs' = [hs EXCEPT ![h] =
                 IF r.req.body = "unmarshalable" THEN Answered(r, SendMarshalError)
                 ELSE IF p = "panic" THEN [q EXCEPT !.pc = "aborted"]
                 ELSE IF p = "error" THEN Answered(q, SendPublishError)
                 ELSE [q EXCEPT !.pc = "wait"]]
  /\ UNCHANGED <<brokerUp, supVars, crashed, recovered, msg>>

\* main.go:189-221: marshal, build the message, publish.
HandlerPublish(h) ==
  /\ ~crashed /\ hs[h].pc = "send"
  /\ LET r == hs[h]
         p == PublishWithDeferredConfirm(env.chan)
         q == [r EXCEPT !.pub = p, !.ch = env.chan, !.tries = r.tries + 1]
     IN hs' = [hs EXCEPT ![h] =
                 IF r.req.body = "unmarshalable" THEN Answered(r, SendMarshalError)
                 ELSE IF p = "panic" THEN [q EXCEPT !.pc = "aborted"]
                 ELSE IF p = "error" THEN Answered(q, SendPublishError)
                 ELSE [q EXCEPT !.pc = "wait"]]
  /\ UNCHANGED <<brokerUp, supVars, crashed, recovered, msg>>

\* main.go:223-228 and 177-185: the confirmation arrives, the handler answers.
HandlerConfirm(h, brokerAck, elapsed) ==
  /\ ~crashed /\ hs[h].pc = "wait"
  /\ LET r == hs[h]
         ack == Wait(r.ch, brokerAck)
     IN hs' = [hs EXCEPT ![h] =
                 Answered([r EXCEPT !.conf = IF ack THEN "ack" ELSE "nack"],
                          SendConfirmed(ack, elapsed))]
  /\ UNCHANGED <<brokerUp, supVars, crashed, recovered, msg>>

(* ---------------- specifications ---------------- *)

Next ==
  \/ MainConnect
  \/ MainAssign
  \/ MainDefer
  \/ RetryLoopRecvTrue
  \/ RetryLoopRecvFalse
  \/ RetryLoopClose
  \/ RetryLoopConnect
  \/ RetryLoopAssign
  \/ SignallerPanic
  \/ MainShutdown
  \/ MainCleanupClose
  \/ BrokerChange
  \/ \E a \in Attempts : ConnectionLost(a)
  \/ \E h \in Handlers : \E req \in RequestsOf(h) : HandlerReceive(h, req)
  \/ \E h \in Handlers : HandlerPublish(h)
  \/ \E h \in Handlers, b \in BOOLEAN, d \in 1..MaxElapsed : HandlerConfirm(h, b, d)

Spec == Init /\ [][Next]_vars

\* The same program with CleanupRabbitMQ invoked a second time.
NextTwice == Next \/ MainShutdownAgain \/ MainSignalPanic

SpecTwice == Init /\ [][NextTwice]_vars

\* Goroutines that can run do run; senders blocked on retryChannel are served
\* in the order they arrived, so the stop value is received in the end.
FairSpec ==
  /\ Spec
  /\ WF_vars(RetryLoopConnect)
  /\ WF_vars(RetryLoopAssign)
  /\ WF_vars(RetryLoopClose)
  /\ WF_vars(MainCleanupClose)
  /\ SF_vars(RetryLoopRecvFalse)

(* ---------------- the headers of the published message ---------------- *)

\* An event is handed to send; nothing else is going on.
InitHeaders ==
  /\ brokerUp = TRUE
  /\ connSt = [a \in Attempts |-> "none"]
  /\ chanSt = [a \in Attempts |-> "none"]
  /\ attempts = 0
  /\ env = NilPair
  /\ retryClosed = FALSE
  /\ signallers = 0
  /\ loopPc = "recv"
  /\ loopRes = NilPair
  /\ mainPc = "connect"
  /\ mainRes = NilPair
  /\ deferArgs = NilPair
  /\ shutdownCalls = 0
  /\ shutdownEnv = NilPair
  /\ crashed = FALSE
  /\ recovered = FALSE
  /\ hs = [h \in Handlers |-> IdleHandler]
  /\ msg \in {[event |-> e, headers |-> <<>>, built |-> FALSE] : e \in Events}

\* main.go:194-205: send builds the headers of the message.
BuildHeaders ==
  /\ ~msg.built
  /\ msg' = [msg EXCEPT !.headers = Headers(msg.event), !.built = TRUE]
  /\ UNCHANGED <<brokerUp, supVars, crashed, recovered, hs>>

SpecHeaders == InitHeaders /\ [][BuildHeaders]_vars

TypeOK ==
  /\ brokerUp \in BOOLEAN
  /\ connSt \in [Attempts -> {"none", "open", "closed"}]
  /\ chanSt \in [Attempts -> {"none", "open", "closed"}]
  /\ attempts \in 0..MaxAttempts
  /\ signallers \in 0..MaxAttempts
  /\ env.chan \in 0..MaxAttempts /\ env.conn \in 0..MaxAttempts
  /\ loopPc \in {"recv", "connect", "assign", "closing", "done"}
  /\ mainPc \in {"connect", "assign", "defer", "serving", "cleanup", "signal",
                 "exited", "panicked"}
  /\ \A h \in Handlers : hs[h].pc \in {"idle", "send", "wait", "done", "aborted"}

(* ---------------- claims ---------------- *)

\* C1: a request that has been answered has status 202 if and only if its
\* publish call was accepted and the confirmation of its message was an ack;
\* after a publish error or a nack the status is never 202.
C1_AcceptedIffAcked ==
  \A h \in Handlers :
    hs[h].pc = "done" =>
      (hs[h].status = StatusAccepted <=> (hs[h].pub = "accepted" /\ hs[h].conf = "ack"))

C1_Witness ==
  \E h \in Handlers :
    hs[h].pc = "done" /\ hs[h].conf = "ack" /\ hs[h].status = StatusAccepted

\* C2: a publish that was accepted and then nacked is answered with status
\* 500, an error and a recorded dispatch duration (not noDuration).
C2_NackHasDuration ==
  \A h \in Handlers :
    (hs[h].pc = "done" /\ hs[h].pub = "accepted" /\ hs[h].conf = "nack") =>
      /\ hs[h].status = StatusInternalServerError
      /\ hs[h].err
      /\ hs[h].dur # noDuration

\* C3: a failed publish call is answered with status 500, an error and no
\* dispatch duration, after exactly one publish attempt and no wait for a
\* confirmation, and the step leaves the shared connection state as it was.
C3_PublishError ==
  /\ [](\A h \in Handlers :
          (hs[h].pc = "done" /\ hs[h].pub = "error") =>
            /\ hs[h].status = StatusInternalServerError
            /\ hs[h].err
            /\ hs[h].dur = noDuration
            /\ hs[h].tries = 1
            /\ hs[h].conf = "none")
  /\ [][\A h \in Handlers :
          (hs[h].pc = "send" /\ hs'[h].pub = "error") => UNCHANGED supVars]_vars

C3_Witness ==
  \E h \in Handlers :
    hs[h].pc = "done" /\ hs[h].pub = "error" /\ hs[h].status = StatusInternalServerError

\* C4: a publish attempt is made only for a POST to "/" whose event decoded
\* and validated; any other request is answered without a publish attempt,
\* 405 for a non-POST method whatever the path, else 404 for another path,
\* else 400 for a decode or validation failure.
C4_OnlyValidPublished ==
  \A h \in Handlers :
    LET r == hs[h] IN
      r.pc # "idle" =>
        /\ r.tries > 0 =>
             (r.req.method = "POST" /\ r.req.uri = "/"
                /\ r.req.body \notin {"undecodable", "invalid"})
        /\ r.req.method # "POST" =>
             (r.pc = "done" /\ r.status = StatusMethodNotAllowed /\ r.tries = 0)
        /\ (r.req.method = "POST" /\ r.req.uri # "/") =>
             (r.pc = "done" /\ r.status = StatusNotFound /\ r.tries = 0)
        /\ (r.req.method = "POST" /\ r.req.uri = "/"
              /\ r.req.body \in {"undecodable", "invalid"}) =>
             (r.pc = "done" /\ r.status = StatusBadRequest /\ r.tries = 0)

C4_Witness ==
  \E h \in Handlers :
    /\ hs[h].pc = "done" /\ hs[h].req.method = "GET" /\ hs[h].req.uri = "/other"
    /\ hs[h].status = StatusMethodNotAllowed

\* C5: once the retry loop has installed a usable pair and the broker has
\* stayed healthy since, every publish of a well-formed event started from
\* then on is accepted by the channel, and is answered 202 unless nacked.
C5_PublishAfterRecovery ==
  [][\A h \in Handlers :
       /\ (recovered /\ hs[h].pc = "send" /\ hs[h].req.body = "ok"
             /\ hs'[h].pc # "send") => hs'[h].pc = "wait"
       /\ (recovered /\ hs[h].pc = "wait" /\ hs'[h].pc = "done") =>
             (hs'[h].status = StatusAccepted \/ hs'[h].conf = "nack")]_vars

\* C6: no request that reaches the publish step is aborted without an
\* outcome: with no channel installed it is answered 500.
C6_NoAbortOnNilChannel ==
  \A h \in Handlers : hs[h].pc # "aborted" /\ hs[h].pub # "panic"

\* C7: a successful connect result installed in the shared state is only
\* ever replaced by the result of a later connect attempt.
C7_NoStaleOverwrite ==
  [][(env.chan # 0 /\ env' # env) => env'.attempt > env.attempt]_vars

\* C8: when shutdown has closed its channel and connection, the pair that the
\* shared state held when shutdown was invoked is closed.
C8_ClosesActivePair ==
  [][(mainPc = "cleanup" /\ mainPc' = "signal") =>
       /\ (shutdownEnv.chan # 0 => chanSt'[shutdownEnv.chan] # "open")
       /\ (shutdownEnv.conn # 0 => connSt'[shutdownEnv.conn] # "open")]_vars

\* C9: a second invocation of shutdown does not panic.
C9_ShutdownTwiceSafe == mainPc # "panicked"

\* C10: after shutdown has been invoked the retry loop eventually terminates,
\* and it terminates only after shutdown has been invoked.
C10_LoopTerminates ==
  /\ (shutdownCalls > 0) ~> (loopPc = "done")
  /\ [](loopPc \in {"closing", "done"} => shutdownCalls > 0)

C10_Witness == loopPc = "done" /\ shutdownCalls > 0 /\ signallers > 0

(* The result that a connect step hands to its caller. *)
StepResult == IF mainPc = "connect" THEN mainRes' ELSE loopRes'

\* C11: retryChannel is closed at most once, only by the retry loop and only
\* after it received false, and the loop ends only that way.
C11_ClosedOnceByLoop ==
  /\ [][retryClosed => retryClosed']_vars
  /\ [][(retryClosed' # retryClosed) => (loopPc = "closing" /\ loopPc' = "done")]_vars
  /\ [][(loopPc' = "done" /\ loopPc # "done") => (loopPc = "closing" /\ retryClosed')]_vars
  /\ [][(loopPc' = "closing" /\ loopPc # "closing") =>
          (loopPc = "recv" /\ mainPc = "signal" /\ mainPc' = "exited"
             /\ signallers' = signallers)]_vars

C11_Witness == retryClosed /\ loopPc = "done" /\ mainPc = "exited"

\* C12: a connect attempt that fails leaves nothing of what it opened open
\* and returns the nil pair; one that succeeds returns the pair it opened.
C12_FailedConnectCloses ==
  [][(attempts' # attempts) =>
       LET a == attempts' IN
         /\ a = attempts + 1
         /\ StepResult.attempt = a
         /\ ~brokerUp => (/\ connSt'[a] # "open" /\ chanSt'[a] # "open"
                          /\ StepResult.conn = 0 /\ StepResult.chan = 0)
         /\ brokerUp => (/\ connSt'[a] = "open" /\ chanSt'[a] = "open"
                         /\ StepResult.conn = a /\ StepResult.chan = a)]_vars

C12_Witness ==
  \E a \in Attempts : connSt[a] = "closed" /\ chanSt[a] = "none" /\ env.chan = 0

\* C15: a received true makes the loop run one connect attempt, assign its
\* result to the shared state and return to the receive; a received false
\* makes it close retryChannel and end without any connect attempt.
C15_OneAttemptPerSignal ==
  [][/\ (loopPc = "recv" /\ loopPc' # "recv" /\ signallers' # signallers) =>
          (signallers' = signallers - 1 /\ loopPc' = "connect" /\ attempts' = attempts)
     /\ (loopPc = "connect" /\ loopPc' # "connect") =>
          (loopPc' = "assign" /\ attempts' = attempts + 1 /\ loopRes'.attempt = attempts')
     /\ (loopPc = "assign") => attempts' = attempts
     /\ (loopPc = "assign" /\ loopPc' # "assign") => (loopPc' = "recv" /\ env' = loopRes)
     /\ (loopPc = "recv" /\ loopPc' # "recv" /\ signallers' = signallers) =>
          (loopPc' = "closing" /\ mainPc = "signal" /\ attempts' = attempts)
     /\ (loopPc \in {"closing", "done"}) =>
          (attempts' = attempts /\ loopPc' \in {"closing", "done"})
     /\ (loopPc = "closing" /\ loopPc' # "closing") => retryClosed']_vars

C15_Witness == loopPc = "recv" /\ env.attempt > 1 /\ env.chan = 0 /\ env = loopRes

\* C16: a failed connect attempt spawns exactly one signaller and returns to
\* its caller with the signal still pending; a successful one spawns none.
C16_OneSignalPerFailure ==
  [][(attempts' # attempts) =>
       /\ (StepResult.chan = 0) => signallers' = signallers + 1
       /\ (StepResult.chan # 0) => signallers' = signallers
       /\ (mainPc = "connect") => (mainPc' = "assign" /\ loopPc' = loopPc)
       /\ (mainPc # "connect") => (loopPc' = "assign" /\ mainPc' = mainPc)]_vars

C16_Witness ==
  signallers > 0 /\ mainPc = "assign" /\ mainRes.chan = 0 /\ mainRes.attempt = 1

\* C18: no signaller is left to send on retryChannel once it is closed, and
\* none panics sending on it.
C18_NoSendOnClosed == ~(retryClosed /\ signallers > 0) /\ ~crashed

\* C19: once shutdown has started no connect attempt starts, and when
\* shutdown has returned and the loop has ended nothing is left open.
C19_NoConnectAfterShutdown ==
  /\ [][(shutdownCalls > 0) => attempts' = attempts]_vars
  /\ []((mainPc = "exited" /\ loopPc = "done") =>
          \A a \in Attempts : connSt[a] # "open" /\ chanSt[a] # "open")

\* C20: at most one connection is open, an assignment to the shared state
\* replaces a pair that is already closed, and every open connection is the
\* one in the shared state or the result about to be assigned to it.
C20_OneOpenConnection ==
  /\ [](Cardinality({a \in Attempts : connSt[a] = "open"}) <= 1)
  /\ [][(env' # env /\ env.conn # 0) =>
          (connSt[env.conn] # "open" /\ chanSt[env.chan] # "open")]_vars
  /\ [](\A a \in Attempts :
          connSt[a] = "open" =>
            \/ env.conn = a
            \/ (mainPc = "assign" /\ mainRes.conn = a)
            \/ (loopPc = "assign" /\ loopRes.conn = a))

\* C13: a request handed to send is counted exactly once with the status of
\* its outcome, has its dispatch time reported exactly when the outcome has a
\* duration, and is answered with the status of the outcome.
C13_ReportsOutcome ==
  \A h \in Handlers :
    LET r == hs[h] IN
      (r.pc \in {"done", "aborted"} /\ ValidateRequest(r.req) = 0) =>
        /\ r.count = 1
        /\ r.countStatus = r.status
        /\ r.disp <=> (r.dur # noDuration)
        /\ r.written = r.status
        /\ r.status # 0

\* C17: while a worker waits for its confirmation every other worker can
\* take its next step and the retry loop can receive, connect and assign;
\* a confirmation changes the record of its own worker only, which is
\* answered 202 exactly when its own message was acked.
C17_WaitBlocksOnlyItself ==
  /\ [](\A h \in Handlers :
          (hs[h].pc = "wait" /\ ~crashed) =>
            /\ \A g \in Handlers \ {h} :
                 /\ hs[g].pc = "send" => ENABLED HandlerPublish(g)
                 /\ hs[g].pc = "wait" =>
                      (ENABLED HandlerConfirm(g, TRUE, 1) /\ ENABLED HandlerConfirm(g, FALSE, 1))
                 /\ (hs[g].pc \in {"idle", "done", "aborted"} /\ mainPc = "serving") =>
                      ENABLED HandlerReceive(g, WellFormed)
            /\ (loopPc = "recv" /\ signallers > 0 /\ ~retryClosed /\ attempts < MaxAttempts) =>
                 ENABLED RetryLoopRecvTrue
            /\ loopPc = "connect" => ENABLED RetryLoopConnect
            /\ loopPc = "assign" => ENABLED RetryLoopAssign)
  /\ [][\A h \in Handlers :
          (hs[h].pc = "wait" /\ hs'[h].pc = "done") =>
            /\ \A g \in Handlers \ {h} : hs'[g] = hs[g]
            /\ UNCHANGED supVars
            /\ hs'[h].status = StatusAccepted <=> hs'[h].conf = "ack"
            /\ hs'[h].conf = "ack" => chanSt[hs[h].ch] = "open"]_vars

C17_Witness ==
  \E h, g \in Handlers :
    /\ h # g /\ hs[h].pc = "wait" /\ hs[g].pc = "wait"
    /\ loopPc = "assign"

\* C14: the keys of the built headers are the reserved keys and the event's
\* extension keys; an extension key carries the extension's value, also when
\* it is a reserved key, and any other reserved key carries the value taken
\* from the event or its span.
C14_HeadersOfMessage ==
  msg.built =>
    LET e == msg.event
        hd == msg.headers
    IN /\ DOMAIN hd = ReservedKeys \cup DOMAIN e.ext
       /\ \A k \in DOMAIN e.ext : hd[k] = e.ext[k]
       /\ "type" \notin DOMAIN e.ext => hd["type"] = e.type
       /\ "source" \notin DOMAIN e.ext => hd["source"] = e.source
       /\ "subject" \notin DOMAIN e.ext => hd["subject"] = e.subject
       /\ "traceparent" \notin DOMAIN e.ext => hd["traceparent"] = e.tp
       /\ "tracestate" \notin DOMAIN e.ext => hd["tracestate"] = e.ts

C14_Witness ==
  /\ msg.built
  /\ DOMAIN msg.event.ext = {"type", "ext1"}
  /\ msg.event.ext["type"] # msg.event.type
  /\ msg.headers["type"] = msg.event.ext["type"]
  /\ msg.headers["subject"] = msg.event.subject
====
